---- MODULE Spec2Model ----
(***************************************************************************)
(* Verification model of the vibe native helpers:                          *)
(*   src/native/url_parser.cc      percent decoder, URL / query splitter   *)
(*   src/native/json_stringify.cc  string emitter, JSON serializer         *)
(* Byte strings are sequences of byte values (0..255).                     *)
(***************************************************************************)
EXTENDS Integers, Sequences, FiniteSets, TLC

VARIABLES
    HEX_TABLE,               \* url_parser.cc:7   static int HEX_TABLE[256]
    hexTableInitialized,     \* url_parser.cc:8
    ESCAPE_TABLE,            \* json_stringify.cc:9  static const char* ESCAPE_TABLE[256]
    escapeTableInitialized,  \* json_stringify.cc:10
    op,                      \* entry point the host called last ("idle" between calls)
    arg,                     \* its argument
    ret,                     \* the value handed back to the host
    thread                   \* concurrent first calls: each thread's position

vars == <<HEX_TABLE, hexTableInitialized, ESCAPE_TABLE, escapeTableInitialized,
          op, arg, ret, thread>>

----------------------------------------------------------------------------
(* Bounds of the explored inputs *)

MaxLen == 4        \* longest raw string given to decodeURI
MaxEncLen == 3     \* longest plain string that is percent-encoded, then decoded
MaxSegs == 2       \* most '&'-separated segments of a generated query
MaxStrLen == 3     \* longest string value given to stringify
MaxSlots == 3      \* most elements / properties of a flat array / object
MaxNest == 12      \* deepest chain of nested containers
NObj == 2          \* containers of a cyclic value graph
MaxArrLen == 3     \* longest self-referential array

----------------------------------------------------------------------------
(* Generic helpers *)

Min(S) == CHOOSE x \in S : \A y \in S : x <= y
Max(S) == CHOOSE x \in S : \A y \in S : x >= y

RECURSIVE SortedSeq(_)
SortedSeq(S) == IF S = {} THEN <<>> ELSE <<Min(S)>> \o SortedSeq(S \ {Min(S)})

\* all strings over alphabet A of length at most n
StringsUpTo(A, n) == UNION { [1..k -> A] : k \in 0..n }

----------------------------------------------------------------------------
(* Hex table, url_parser.cc:7-20 *)

\* The byte values whose HEX_TABLE entry is tracked: every byte a modelled
\* input can present as an index, and byte 0 (the one entry the static
\* initialiser sets).  Entries of other bytes are never read.
HexIndex == {0, 37, 38, 43, 50, 53, 54, 61, 63, 66, 98, 107}
\*              %   &   +   2   5   6   =   ?   B   b   k

\* static int HEX_TABLE[256] = {-1};  entry 0 is -1, the rest zero
HexTableStatic == [b \in HexIndex |-> IF b = 0 THEN -1 ELSE 0]

\* The writes of initHexTable in program order (lines 13, 15, 16, 17),
\* restricted to the tracked entries: <<index, value>>
HexWrites ==
    [k \in 1..Cardinality(HexIndex) |-> <<SortedSeq(HexIndex)[k], -1>>]
    \o [k \in 1..Cardinality(HexIndex \cap 48..57) |->
          <<SortedSeq(HexIndex \cap 48..57)[k], SortedSeq(HexIndex \cap 48..57)[k] - 48>>]
    \o [k \in 1..Cardinality(HexIndex \cap 97..102) |->
          <<SortedSeq(HexIndex \cap 97..102)[k], SortedSeq(HexIndex \cap 97..102)[k] - 97 + 10>>]
    \o [k \in 1..Cardinality(HexIndex \cap 65..70) |->
          <<SortedSeq(HexIndex \cap 65..70)[k], SortedSeq(HexIndex \cap 65..70)[k] - 65 + 10>>]

RECURSIVE ApplyWrites(_, _, _)
ApplyWrites(tbl, writes, k) ==
    IF k > Len(writes) THEN tbl
    ELSE ApplyWrites([tbl EXCEPT ![writes[k][1]] = writes[k][2]], writes, k + 1)

\* initHexTable run without interruption
initHexTable(tbl, initialized) ==
    IF initialized THEN tbl ELSE ApplyWrites(tbl, HexWrites, 1)

----------------------------------------------------------------------------
(* Percent decoder, url_parser.cc:22-52 *)

RECURSIVE DecodeLoop(_, _, _, _)
DecodeLoop(data, i, result, tbl) ==
    LET len == Len(data) IN
    IF ~(i < len) THEN result
    ELSE LET c == data[i + 1] IN
         IF c = 37 /\ i + 2 < len
         THEN LET hi == tbl[data[i + 2]]
                  lo == tbl[data[i + 3]]
              IN IF hi >= 0 /\ lo >= 0
                 THEN DecodeLoop(data, i + 3, Append(result, (hi * 16 + lo) % 256), tbl)
                 ELSE DecodeLoop(data, i + 1, Append(result, c), tbl)
         ELSE IF c = 43
              THEN DecodeLoop(data, i + 1, Append(result, 32), tbl)
              ELSE DecodeLoop(data, i + 1, Append(result, c), tbl)

\* mutant: the bound test of line 34 off by one (i + 3 < len), so a triplet
\* that ends the string is left undecoded
RECURSIVE DecodeLoopShort(_, _, _, _)
DecodeLoopShort(data, i, result, tbl) ==
    LET len == Len(data) IN
    IF ~(i < len) THEN result
    ELSE LET c == data[i + 1] IN
         IF c = 37 /\ i + 3 < len
         THEN LET hi == tbl[data[i + 2]]
                  lo == tbl[data[i + 3]]
              IN IF hi >= 0 /\ lo >= 0
                 THEN DecodeLoopShort(data, i + 3, Append(result, (hi * 16 + lo) % 256), tbl)
                 ELSE DecodeLoopShort(data, i + 1, Append(result, c), tbl)
         ELSE IF c = 43
              THEN DecodeLoopShort(data, i + 1, Append(result, 32), tbl)
              ELSE DecodeLoopShort(data, i + 1, Append(result, c), tbl)

DecodeURIComponentShort(encoded, tbl) == DecodeLoopShort(encoded, 0, <<>>, tbl)

\* mutant: a '%' that starts no valid triplet is dropped, not passed through
RECURSIVE DecodeLoopDrop(_, _, _, _)
DecodeLoopDrop(data, i, result, tbl) ==
    LET len == Len(data) IN
    IF ~(i < len) THEN result
    ELSE LET c == data[i + 1] IN
         IF c = 37 /\ i + 2 < len
         THEN LET hi == tbl[data[i + 2]]
                  lo == tbl[data[i + 3]]
              IN IF hi >= 0 /\ lo >= 0
                 THEN DecodeLoopDrop(data, i + 3, Append(result, (hi * 16 + lo) % 256), tbl)
                 ELSE DecodeLoopDrop(data, i + 1, result, tbl)
         ELSE IF c = 43
              THEN DecodeLoopDrop(data, i + 1, Append(result, 32), tbl)
              ELSE DecodeLoopDrop(data, i + 1, Append(result, c), tbl)

DecodeURIComponentDrop(encoded, tbl) == DecodeLoopDrop(encoded, 0, <<>>, tbl)

\* UrlParser::DecodeURIComponent, reading the table tbl
DecodeURIComponent(encoded, tbl) == DecodeLoop(encoded, 0, <<>>, tbl)

----------------------------------------------------------------------------
(* URL / query splitter, url_parser.cc:54-163 *)

\* memchr(data + from, ch, upto - from): 0-based offset of the first ch in
\* [from, upto), or -1 (null)
memchr(data, from, ch, upto) ==
    LET hits == {p \in from..(upto - 1) : data[p + 1] = ch}
    IN IF hits = {} THEN -1 ELSE Min(hits)

\* std::string(ptr, n) taken from data at 0-based offset from
Bytes(data, from, n) == SubSeq(data, from + 1, from + n)

EmptyMap == [k \in {} |-> <<>>]

\* result.query[key] = value  /  result.Set(key, value)
MapSet(m, key, value) ==
    [k \in DOMAIN m \cup {key} |-> IF k = key THEN value ELSE m[k]]

\* the while loop of UrlParser::Parse, lines 78-94
RECURSIVE ParseLoop(_, _, _, _, _)
ParseLoop(data, pos, end, query, tbl) ==
    IF ~(pos < end) THEN query
    ELSE LET amp == memchr(data, pos, 38, end)
             pairEnd == IF amp # -1 THEN amp ELSE end
             eq == memchr(data, pos, 61, pairEnd)
         IN IF eq # -1 /\ eq > pos
            THEN LET key == DecodeURIComponent(Bytes(data, pos, eq - pos), tbl)
                     value == DecodeURIComponent(Bytes(data, eq + 1, pairEnd - eq - 1), tbl)
                 IN ParseLoop(data, pairEnd + 1, end, MapSet(query, key, value), tbl)
            ELSE ParseLoop(data, pairEnd + 1, end, query, tbl)

\* mutant: the pathname is percent-decoded
ParseDecodedPath(url, tbl) ==
    LET len == Len(url)
        qmark == memchr(url, 0, 63, len)
    IN IF qmark = -1
       THEN [pathname |-> DecodeLoop(url, 0, <<>>, tbl), query |-> EmptyMap]
       ELSE [pathname |-> DecodeLoop(Bytes(url, 0, qmark), 0, <<>>, tbl),
             query |-> ParseLoop(url, qmark + 1, len, EmptyMap, tbl)]

\* UrlParser::Parse, lines 54-97
Parse(url, tbl) ==
    LET len == Len(url)
        qmark == memchr(url, 0, 63, len)
    IN IF qmark = -1
       THEN [pathname |-> url, query |-> EmptyMap]
       ELSE [pathname |-> Bytes(url, 0, qmark),
             query |-> ParseLoop(url, qmark + 1, len, EmptyMap, tbl)]

\* the while loop of ParseQuery, lines 146-160
RECURSIVE ParseQueryLoop(_, _, _, _, _)
ParseQueryLoop(data, pos, end, result, tbl) ==
    IF ~(pos < end) THEN result
    ELSE LET amp == memchr(data, pos, 38, end)
             pairEnd == IF amp # -1 THEN amp ELSE end
             eq == memchr(data, pos, 61, pairEnd)
         IN IF eq # -1 /\ eq > pos
            THEN LET key == DecodeURIComponent(Bytes(data, pos, eq - pos), tbl)
                     value == DecodeURIComponent(Bytes(data, eq + 1, pairEnd - eq - 1), tbl)
                 IN ParseQueryLoop(data, pairEnd + 1, end, MapSet(result, key, value), tbl)
            ELSE ParseQueryLoop(data, pairEnd + 1, end, result, tbl)

\* mutant: a key that is already present keeps its first value
RECURSIVE ParseQueryLoopFirstWins(_, _, _, _, _)
ParseQueryLoopFirstWins(data, pos, end, result, tbl) ==
    IF ~(pos < end) THEN result
    ELSE LET amp == memchr(data, pos, 38, end)
             pairEnd == IF amp # -1 THEN amp ELSE end
             eq == memchr(data, pos, 61, pairEnd)
         IN IF eq # -1 /\ eq > pos
            THEN LET key == DecodeLoop(Bytes(data, pos, eq - pos), 0, <<>>, tbl)
                     value == DecodeLoop(Bytes(data, eq + 1, pairEnd - eq - 1), 0, <<>>, tbl)
                 IN ParseQueryLoopFirstWins(data, pairEnd + 1, end,
                        IF key \in DOMAIN result THEN result
                        ELSE MapSet(result, key, value), tbl)
            ELSE ParseQueryLoopFirstWins(data, pairEnd + 1, end, result, tbl)

ParseQueryStringFirstWins(queryString, tbl) ==
    LET skip == IF Len(queryString) > 0 /\ queryString[1] = 63 THEN 1 ELSE 0
    IN ParseQueryLoopFirstWins(queryString, skip, Len(queryString), EmptyMap, tbl)

\* body of ParseQuery for a string argument, lines 131-162
ParseQueryString(queryString, tbl) ==
    LET skip == IF Len(queryString) > 0 /\ queryString[1] = 63 THEN 1 ELSE 0
    IN ParseQueryLoop(queryString, skip, Len(queryString), EmptyMap, tbl)

----------------------------------------------------------------------------
(* Escape table, json_stringify.cc:9-25 *)

\* The byte values whose ESCAPE_TABLE entry is tracked: the seven bytes
\* initEscapeTable writes and the other control bytes of modelled strings.
\* Only bytes below 0x20, '"' and '\\' are ever looked up (line 93).
EscapeIndex == {1, 8, 9, 10, 12, 13, 31, 34, 92}

\* static const char* ESCAPE_TABLE[256] = {nullptr};  <<>> stands for nullptr
EscapeTableStatic == [b \in EscapeIndex |-> <<>>]

\* The writes of initEscapeTable in program order (lines 16-22):
\* <<index, escape string>>
EscapeWrites ==
    << <<34, <<92, 34>>>>,     \* '"'  -> \"
       <<92, <<92, 92>>>>,     \* '\\' -> \\
       <<8,  <<92, 98>>>>,     \* '\b' -> \b
       <<12, <<92, 102>>>>,    \* '\f' -> \f
       <<10, <<92, 110>>>>,    \* '\n' -> \n
       <<13, <<92, 114>>>>,    \* '\r' -> \r
       <<9,  <<92, 116>>>> >>  \* '\t' -> \t

\* initEscapeTable run without interruption
initEscapeTable(tbl, initialized) ==
    IF initialized THEN tbl ELSE ApplyWrites(tbl, EscapeWrites, 1)

----------------------------------------------------------------------------
(* String emitter, json_stringify.cc:83-119 *)

\* one lowercase hex digit, as printf's %x writes it
HexDigitLower(d) == IF d < 10 THEN 48 + d ELSE 97 + (d - 10)

\* snprintf(buf, sizeof(buf), "\\u%04x", c) for a byte c, 6 bytes
UEscape(c) == <<92, 117, 48, 48, HexDigitLower(c \div 16), HexDigitLower(c % 16)>>

\* the for loop of escapeStringFast, lines 90-111: sb is what was appended
\* so far, lastPos the start of the verbatim run not yet flushed
RECURSIVE EscapeLoop(_, _, _, _, _)
EscapeLoop(data, i, lastPos, sb, tbl) ==
    IF ~(i < Len(data)) THEN [sb |-> sb, lastPos |-> lastPos]
    ELSE LET c == data[i + 1] IN
         IF c < 32 \/ c = 34 \/ c = 92
         THEN LET flushed == IF i > lastPos
                             THEN sb \o Bytes(data, lastPos, i - lastPos)
                             ELSE sb
                  escaped == IF tbl[c] # <<>>
                             THEN flushed \o tbl[c]
                             ELSE flushed \o UEscape(c)
              IN EscapeLoop(data, i + 1, i + 1, escaped, tbl)
         ELSE EscapeLoop(data, i + 1, lastPos, sb, tbl)

\* escapeStringFast that leaves out the flush after the loop (lines 113-116)
escapeStringNoFlush(str, tbl) ==
    Append(EscapeLoop(str, 0, 0, <<34>>, tbl).sb, 34)

\* escapeStringFast: the bytes it appends for str
escapeStringFast(str, tbl) ==
    LET r == EscapeLoop(str, 0, 0, <<34>>, tbl)
        rest == IF r.lastPos < Len(str)
                THEN r.sb \o Bytes(str, r.lastPos, Len(str) - r.lastPos)
                ELSE r.sb
    IN Append(rest, 34)

----------------------------------------------------------------------------
(* Dynamic values handed to the serializer (Napi::Value) *)

\* A value is a record [kind, cls, n, s]:
\*   kind "null", "undefined", "symbol"
\*   kind "boolean"  n = 1 for true, 0 for false
\*   kind "number"   cls "nan", "inf", or "finite" with n the value in tenths
\*   kind "string"   s its UTF-8 bytes
\*   kind "ref"      n the identity of an array, object or function of the heap
Val(kind, cls, n, s) == [kind |-> kind, cls |-> cls, n |-> n, s |-> s]
Null == Val("null", "", 0, <<>>)
Undefined == Val("undefined", "", 0, <<>>)
Symbol == Val("symbol", "", 0, <<>>)
Bool(b) == Val("boolean", "", IF b THEN 1 ELSE 0, <<>>)
NaN == Val("number", "nan", 0, <<>>)
Infinity == Val("number", "inf", 0, <<>>)
Tenths(t) == Val("number", "finite", t, <<>>)
Num(i) == Tenths(10 * i)
Str(bytes) == Val("string", "", 0, bytes)
Ref(id) == Val("ref", "", id, <<>>)

\* A heap entry is a record
\*   [type      "array", "object" or "function",
\*    keys      the property names GetPropertyNames yields, in host order,
\*    elems     array elements, or the property values in the order of keys,
\*    hasToJSON whether the member toJSON exists and is callable,
\*    toJSON    the value calling it returns]
Obj(type, keys, elems, hasToJSON, toJSON) ==
    [type |-> type, keys |-> keys, elems |-> elems,
     hasToJSON |-> hasToJSON, toJSON |-> toJSON]

IsArray(heap, v) == v.kind = "ref" /\ heap[v.n].type = "array"
\* Napi::Value::IsObject holds for napi_object and for napi_function
IsObject(heap, v) == v.kind = "ref"

----------------------------------------------------------------------------
(* Output buffer, json_stringify.cc:28-80.  The buffer is kept as the      *)
(* sequence of emitted tokens; a token is the bytes one emission appends.  *)

LBracket == <<91>>
RBracket == <<93>>
LBrace == <<123>>
RBrace == <<125>>
Comma == <<44>>
Colon == <<58>>
NullTok == <<110, 117, 108, 108>>
TrueTok == <<116, 114, 117, 101>>
FalseTok == <<102, 97, 108, 115, 101>>

RECURSIVE Digits(_)
Digits(n) == IF n < 10 THEN <<48 + n>> ELSE Append(Digits(n \div 10), 48 + (n % 10))

\* FastStringBuilder::appendInt, snprintf "%ld"
appendInt(value) == IF value < 0 THEN <<45>> \o Digits(-value) ELSE Digits(value)

\* FastStringBuilder::appendDouble, snprintf "%.15g", for a value given in
\* tenths that is not an integer: sign, integer part, '.', one digit
appendDouble(t) ==
    LET a == IF t < 0 THEN -t ELSE t
    IN (IF t < 0 THEN <<45>> ELSE <<>>) \o Digits(a \div 10) \o <<46, 48 + (a % 10)>>

\* the IsNumber branch of stringifyValueFast, lines 183-193.  A modelled
\* finite value fits 32 bits, so it lies inside the range
\* [-9007199254740991, 9007199254740991] that line 187 tests; what is left
\* of that test is whether the value is an integer.
NumberToken(v) ==
    IF v.cls = "nan" \/ v.cls = "inf" THEN NullTok
    ELSE IF v.n % 10 = 0
         THEN appendInt(IF v.n < 0 THEN -((-v.n) \div 10) ELSE v.n \div 10)
         ELSE appendDouble(v.n)

----------------------------------------------------------------------------
(* JSON serializer, json_stringify.cc:121-239 *)

MAX_DEPTH == 10     \* json_stringify.cc:124, 141 (json_stringify.h:24)

\* A call yields [out, ok]: the tokens appended, and whether it returned.
\* fuel is the number of native frames left; a call made with none left
\* does not return (the stack is exhausted).
Emit(tok) == [out |-> <<tok>>, ok |-> TRUE]
Exhausted == [out |-> <<>>, ok |-> FALSE]

RECURSIVE stringifyValueFast(_, _, _, _, _)
RECURSIVE ArrayLoop(_, _, _, _, _, _, _)
RECURSIVE ObjectLoop(_, _, _, _, _, _, _, _)

\* the for loop of stringifyArrayFast, lines 132-135 and the closing ']'
ArrayLoop(heap, arr, i, depth, fuel, tbl, sb) ==
    IF ~(i < Len(arr.elems)) THEN [out |-> Append(sb, RBracket), ok |-> TRUE]
    ELSE LET sep == IF i > 0 THEN Append(sb, Comma) ELSE sb
             r == stringifyValueFast(heap, arr.elems[i + 1], depth + 1, fuel, tbl)
         IN IF ~r.ok THEN [out |-> sep \o r.out, ok |-> FALSE]
            ELSE ArrayLoop(heap, arr, i + 1, depth, fuel, tbl, sep \o r.out)

\* stringifyArrayFast with the depth test off by one
stringifyArrayDeeper(heap, arr, depth, fuel, tbl) ==
    IF fuel = 0 THEN Exhausted
    ELSE IF depth > MAX_DEPTH + 1 THEN Emit(NullTok)
    ELSE ArrayLoop(heap, arr, 0, depth, fuel - 1, tbl, <<LBracket>>)

\* stringifyArrayFast, lines 123-138
stringifyArrayFast(heap, arr, depth, fuel, tbl) ==
    IF fuel = 0 THEN Exhausted
    ELSE IF depth > MAX_DEPTH THEN Emit(NullTok)
    ELSE ArrayLoop(heap, arr, 0, depth, fuel - 1, tbl, <<LBracket>>)

\* the loop of stringifyObjectFast writing its commas as the array loop
\* does, by the index instead of the first flag
RECURSIVE ObjectLoopIndexComma(_, _, _, _, _, _, _, _)
ObjectLoopIndexComma(heap, obj, i, first, depth, fuel, tbl, sb) ==
    IF ~(i < Len(obj.keys)) THEN [out |-> Append(sb, RBrace), ok |-> TRUE]
    ELSE LET key == obj.keys[i + 1]
             val == obj.elems[i + 1]
         IN IF val.kind = "undefined"
            THEN ObjectLoopIndexComma(heap, obj, i + 1, first, depth, fuel, tbl, sb)
            ELSE LET sep == IF i > 0 THEN Append(sb, Comma) ELSE sb
                     head == sep \o <<escapeStringFast(key, tbl), Colon>>
                     r == stringifyValueFast(heap, val, depth + 1, fuel, tbl)
                 IN IF ~r.ok THEN [out |-> head \o r.out, ok |-> FALSE]
                    ELSE ObjectLoopIndexComma(heap, obj, i + 1, FALSE, depth, fuel,
                                              tbl, head \o r.out)

\* the for loop of stringifyObjectFast, lines 151-163 and the closing '}'
ObjectLoop(heap, obj, i, first, depth, fuel, tbl, sb) ==
    IF ~(i < Len(obj.keys)) THEN [out |-> Append(sb, RBrace), ok |-> TRUE]
    ELSE LET key == obj.keys[i + 1]
             val == obj.elems[i + 1]
         IN IF val.kind = "undefined"
            THEN ObjectLoop(heap, obj, i + 1, first, depth, fuel, tbl, sb)
            ELSE LET sep == IF ~first THEN Append(sb, Comma) ELSE sb
                     head == sep \o <<escapeStringFast(key, tbl), Colon>>
                     r == stringifyValueFast(heap, val, depth + 1, fuel, tbl)
                 IN IF ~r.ok THEN [out |-> head \o r.out, ok |-> FALSE]
                    ELSE ObjectLoop(heap, obj, i + 1, FALSE, depth, fuel, tbl,
                                    head \o r.out)

\* stringifyObjectFast with the depth test one level early
stringifyObjectShallow(heap, obj, depth, fuel, tbl) ==
    IF fuel = 0 THEN Exhausted
    ELSE IF depth >= MAX_DEPTH THEN Emit(NullTok)
    ELSE ObjectLoop(heap, obj, 0, TRUE, depth, fuel - 1, tbl, <<LBrace>>)

\* stringifyObjectFast, lines 140-166
stringifyObjectFast(heap, obj, depth, fuel, tbl) ==
    IF fuel = 0 THEN Exhausted
    ELSE IF depth > MAX_DEPTH THEN Emit(NullTok)
    ELSE ObjectLoop(heap, obj, 0, TRUE, depth, fuel - 1, tbl, <<LBrace>>)

\* stringifyValueFast, lines 168-221
stringifyValueFast(heap, value, depth, fuel, tbl) ==
    IF fuel = 0 THEN Exhausted
    ELSE CASE value.kind = "null" \/ value.kind = "undefined" -> Emit(NullTok)
           [] value.kind = "boolean" ->
                  IF value.n = 1 THEN Emit(TrueTok) ELSE Emit(FalseTok)
           [] value.kind = "number" -> Emit(NumberToken(value))
           [] value.kind = "string" -> Emit(escapeStringFast(value.s, tbl))
           [] IsArray(heap, value) ->
                  stringifyArrayFast(heap, heap[value.n], depth, fuel - 1, tbl)
           [] ~IsArray(heap, value) /\ IsObject(heap, value)
                                    /\ heap[value.n].hasToJSON ->
                  stringifyValueFast(heap, heap[value.n].toJSON, depth, fuel - 1, tbl)
           [] ~IsArray(heap, value) /\ IsObject(heap, value)
                                    /\ ~heap[value.n].hasToJSON ->
                  stringifyObjectFast(heap, heap[value.n], depth, fuel - 1, tbl)
           [] OTHER -> Emit(NullTok)

----------------------------------------------------------------------------
(* Inputs of the URL entry points *)

\* raw strings for decodeURI:  %  +  2  B  b  k
DecBytes == {37, 43, 50, 66, 98, 107}
RawStrings == StringsUpTo(DecBytes, MaxLen)

\* plain strings that are percent-encoded before decodeURI sees them:
\*   "  %  +  0xBB  and the alphanumerics 2 B
EncBytes == {34, 37, 43, 187, 50, 66}
PlainStrings == StringsUpTo(EncBytes, MaxEncLen)

IsAlnum(b) == b \in 48..57 \/ b \in 65..90 \/ b \in 97..122
HexDigitChar(d, upper) ==
    IF d < 10 THEN 48 + d ELSE (IF upper THEN 65 ELSE 97) + (d - 10)

\* percent_encode: %XX for every non-alphanumeric byte, with upper- or
\* lower-case hex digits
RECURSIVE PercentEncode(_, _)
PercentEncode(b, upper) ==
    IF b = <<>> THEN <<>>
    ELSE (IF IsAlnum(Head(b)) THEN <<Head(b)>>
          ELSE <<37, HexDigitChar(Head(b) \div 16, upper),
                     HexDigitChar(Head(b) % 16, upper)>>)
         \o PercentEncode(Tail(b), upper)

\* query segments: a key, or key '=' value
SegKeys == { <<>>, <<98>>, <<37, 54, 50>>, <<107>> }         \* "", b, %62, k
SegValues == { <<>>, <<43, 61>>, <<37, 54>> }                \* "", +=, %6
Segments == SegKeys \cup { k \o <<61>> \o v : k \in SegKeys, v \in SegValues }

RECURSIVE JoinAmp(_)
JoinAmp(segs) ==
    IF Len(segs) = 0 THEN <<>>
    ELSE IF Len(segs) = 1 THEN segs[1]
    ELSE segs[1] \o <<38>> \o JoinAmp(Tail(segs))

\* query byte ranges: up to MaxSegs segments joined by '&' (an empty last
\* segment gives a trailing '&')
Queries == { JoinAmp(q) : q \in StringsUpTo(Segments, MaxSegs) }

\* path parts: "" and "+%62"
Paths == { <<>>, <<43, 37, 54, 50>> }

\* URLs for parseUrl: a path alone, or path '?' query
Urls == Paths \cup { p \o <<63>> \o q : p \in Paths, q \in Queries }

\* arguments of parseQuery: a query, or '?' query
QueryArgs == Queries \cup { <<63>> \o q : q \in Queries }

\* the argument the host passes: a string, or something that is no string.
\* encoded/plain record where the host got the string from: plain is the byte
\* string it percent-encoded, when it did.
StringArg(s) == [isString |-> TRUE, s |-> s, encoded |-> FALSE, plain |-> <<>>]
EncodedArg(b, upper) ==
    [isString |-> TRUE, s |-> PercentEncode(b, upper), encoded |-> TRUE, plain |-> b]
NoString == [isString |-> FALSE, s |-> <<>>, encoded |-> FALSE, plain |-> <<>>]

----------------------------------------------------------------------------
(* The URL entry points *)

\* the threads that make a first call concurrently
Threads == {1, 2}

\* a thread before its call: at is its position, k the next table write of
\* its init routine, seen the table lookup its call made
NotStarted == [at |-> "start", k |-> 0, seen |-> <<>>]

Init ==
    /\ thread = [t \in Threads |-> NotStarted]
    /\ HEX_TABLE = HexTableStatic
    /\ hexTableInitialized = FALSE
    /\ ESCAPE_TABLE = EscapeTableStatic
    /\ escapeTableInitialized = FALSE
    /\ op = "idle"
    /\ arg = <<>>
    /\ ret = <<>>

\* DecodeURI, url_parser.cc:165-176
DecodeURICall(a) ==
    /\ op = "idle"
    /\ op' = "decodeURI"
    /\ arg' = a
    /\ UNCHANGED <<ESCAPE_TABLE, escapeTableInitialized, thread>>
    /\ IF ~a.isString
       THEN /\ ret' = <<>>
            /\ UNCHANGED <<HEX_TABLE, hexTableInitialized>>
       ELSE LET tbl == initHexTable(HEX_TABLE, hexTableInitialized)
            IN /\ HEX_TABLE' = tbl
               /\ hexTableInitialized' = TRUE
               /\ ret' = DecodeURIComponent(a.s, tbl)

DecodeURI ==
    \E a \in {NoString} \cup { StringArg(s) : s \in RawStrings }
                        \cup { EncodedArg(b, u) : b \in PlainStrings, u \in BOOLEAN } :
        DecodeURICall(a)

\* ParseUrl, url_parser.cc:99-120.  The table is initialized by the first
\* DecodeURIComponent call, so only when some pair is decoded.
ParseUrlCall(a) ==
    /\ op = "idle"
    /\ op' = "parseUrl"
    /\ arg' = a
    /\ UNCHANGED <<ESCAPE_TABLE, escapeTableInitialized, thread>>
    /\ IF ~a.isString
       THEN /\ ret' = [threw |-> TRUE, pathname |-> <<>>, query |-> EmptyMap]
            /\ UNCHANGED <<HEX_TABLE, hexTableInitialized>>
       ELSE LET tbl == initHexTable(HEX_TABLE, hexTableInitialized)
                parsed == Parse(a.s, tbl)
                decoded == parsed.query # EmptyMap
            IN /\ HEX_TABLE' = IF decoded THEN tbl ELSE HEX_TABLE
               /\ hexTableInitialized' = (hexTableInitialized \/ decoded)
               /\ ret' = [threw |-> FALSE, pathname |-> parsed.pathname,
                          query |-> parsed.query]

ParseUrl == \E a \in {NoString} \cup { StringArg(u) : u \in Urls } : ParseUrlCall(a)

\* ParseQuery, url_parser.cc:122-163
ParseQueryCall(a) ==
    /\ op = "idle"
    /\ op' = "parseQuery"
    /\ arg' = a
    /\ UNCHANGED <<ESCAPE_TABLE, escapeTableInitialized, thread>>
    /\ IF ~a.isString
       THEN /\ ret' = EmptyMap
            /\ UNCHANGED <<HEX_TABLE, hexTableInitialized>>
       ELSE LET tbl == initHexTable(HEX_TABLE, hexTableInitialized)
            IN /\ HEX_TABLE' = tbl
               /\ hexTableInitialized' = TRUE
               /\ ret' = ParseQueryString(a.s, tbl)

ParseQuery == \E a \in {NoString} \cup { StringArg(q) : q \in QueryArgs } : ParseQueryCall(a)

\* the call has returned: the host takes the result and may call again
Return ==
    /\ op # "idle"
    /\ op' = "idle"
    /\ arg' = <<>>
    /\ ret' = <<>>
    /\ UNCHANGED <<HEX_TABLE, hexTableInitialized, ESCAPE_TABLE, escapeTableInitialized,
                   thread>>

NextUrl == DecodeURI \/ ParseUrl \/ ParseQuery \/ Return
SpecUrl == Init /\ [][NextUrl]_vars

----------------------------------------------------------------------------
(* Reference definitions the URL claims are stated with *)

IsHexDigit(c) == c \in 48..57 \/ c \in 65..70 \/ c \in 97..102
HexValue(c) == IF c <= 57 THEN c - 48 ELSE IF c <= 70 THEN c - 55 ELSE c - 87

\* percent_decode as one left-to-right pass over what is left of the input
RECURSIVE RefDecode(_)
RefDecode(b) ==
    IF b = <<>> THEN <<>>
    ELSE IF b[1] = 37 /\ Len(b) >= 3 /\ IsHexDigit(b[2]) /\ IsHexDigit(b[3])
         THEN <<HexValue(b[2]) * 16 + HexValue(b[3])>> \o RefDecode(SubSeq(b, 4, Len(b)))
    ELSE IF b[1] = 43 THEN <<32>> \o RefDecode(Tail(b))
    ELSE <<b[1]>> \o RefDecode(Tail(b))

\* the '&'-separated segments of the range R, by their start positions
SegStarts(R) == {1} \cup { i + 1 : i \in { j \in 1..Len(R) : R[j] = 38 } }
SegAt(R, st) ==
    SubSeq(R, st, Min({ j \in st..Len(R) : R[j] = 38 } \cup {Len(R) + 1}) - 1)

EqPositions(seg) == { i \in 1..Len(seg) : seg[i] = 61 }
Contributes(seg) == EqPositions(seg) # {} /\ Min(EqPositions(seg)) > 1
SegKey(seg) == RefDecode(SubSeq(seg, 1, Min(EqPositions(seg)) - 1))
SegValue(seg) == RefDecode(SubSeq(seg, Min(EqPositions(seg)) + 1, Len(seg)))

\* the mapping of the range R: a key is present iff a segment contributes
\* it, with the value of the last such segment
RefQueryMap(R) ==
    LET contributing == { st \in SegStarts(R) : Contributes(SegAt(R, st)) }
        keys == { SegKey(SegAt(R, st)) : st \in contributing }
    IN [k \in keys |->
          SegValue(SegAt(R, Max({ st \in contributing : SegKey(SegAt(R, st)) = k })))]

QMarks(u) == { i \in 1..Len(u) : u[i] = 63 }
\* the bytes after the first '?' of u
AfterFirstQMark(u) == SubSeq(u, Min(QMarks(u)) + 1, Len(u))
\* the bytes before the first '?' of u, all of u when it has none
BeforeFirstQMark(u) ==
    IF QMarks(u) = {} THEN u ELSE SubSeq(u, 1, Min(QMarks(u)) - 1)
\* the argument of parse_query with one leading '?' skipped
SkipLeadingQMark(q) == IF Len(q) > 0 /\ q[1] = 63 THEN Tail(q) ELSE q

----------------------------------------------------------------------------
(* Claims about the URL entry points, checked under SpecUrl *)

\* C5: for every byte string b, decode_uri(percent_encode(b)) = b, with
\* upper- or lower-case hex digits, for the empty string as well.
C5_DecodeInvertsEncode ==
    (op = "decodeURI" /\ arg.encoded) =>
        /\ \E u \in BOOLEAN : arg.s = PercentEncode(arg.plain, u)
        /\ ret = arg.plain

\* a plain string "%2B" was encoded to %252B and decoded back
C5_Witness ==
    /\ op = "decodeURI" /\ arg.encoded
    /\ arg.plain = <<37, 50, 66>>
    /\ arg.s = <<37, 50, 53, 50, 66>>
    /\ ret = <<37, 50, 66>>

\* C6: parse_url's query (the tail after the first '?') and parse_query's
\* result (after one optional leading '?') are the fold over the segments:
\* a segment contributes iff its first '=' is at an offset > 0, key and
\* value are percent-decoded, the last contributing segment of a decoded
\* key gives its value.
C6_QueryIsFold ==
    /\ (op = "parseUrl" /\ arg.isString /\ QMarks(arg.s) # {}) =>
           ret.query = RefQueryMap(AfterFirstQMark(arg.s))
    /\ (op = "parseQuery" /\ arg.isString) =>
           ret = RefQueryMap(SkipLeadingQMark(arg.s))

\* "?%62=%6&b=+=" : two segments with the same decoded key b, the last
\* wins, and its value keeps the '=' after the first one
C6_Witness ==
    /\ op = "parseQuery" /\ arg.isString
    /\ arg.s = <<63, 37, 54, 50, 61, 37, 54, 38, 98, 61, 43, 61>>
    /\ ret = [k \in {<<98>>} |-> <<32, 61>>]

\* C7: parse_url(u).pathname is the raw bytes of u before its first '?',
\* all of u when there is none, neither percent-decoded nor '+'-translated;
\* with no '?' the query is empty.
C7_PathnameIsRawPrefix ==
    (op = "parseUrl" /\ arg.isString) =>
        /\ ret.pathname = BeforeFirstQMark(arg.s)
        /\ QMarks(arg.s) = {} => ret.query = EmptyMap

\* the path "+%62" of "+%62?b=" comes back undecoded
C7_Witness ==
    /\ op = "parseUrl" /\ arg.isString
    /\ arg.s = <<43, 37, 54, 50, 63, 98, 61>>
    /\ ret.pathname = <<43, 37, 54, 50>>

\* C9: percent_decode is the reference left-to-right pass, and its output
\* is never longer than its input.
C9_DecodeIsReferencePass ==
    (op = "decodeURI" /\ arg.isString) =>
        /\ ret = RefDecode(arg.s)
        /\ Len(ret) <= Len(arg.s)

\* "%%2B" : the first '%' passes through, the triplet after it is decoded
\* to '+', which is not turned into a space
C9_Witness ==
    /\ op = "decodeURI" /\ arg.isString
    /\ arg.s = <<37, 37, 50, 66>>
    /\ ret = <<37, 43>>

----------------------------------------------------------------------------
(* Inputs of stringify *)

A == <<97>>     \* the string "a"

\* the i-th property name of a generated object: k1, "2, k3, ...
KeyName(i) == IF i % 2 = 0 THEN <<34, 48 + i>> ELSE <<107, 48 + i>>

ArrayOf(elems, hasToJSON) == Obj("array", <<>>, elems, hasToJSON, Str(A))
ObjectOf(vals) == Obj("object", [i \in 1..Len(vals) |-> KeyName(i)], vals, FALSE, Null)
Hooked(result) == Obj("object", <<>>, <<>>, TRUE, result)
Function == Obj("function", <<>>, <<>>, FALSE, Null)

\* what the host passes: no argument, or a value with the heap it lives in
Given(heap, value) == [given |-> TRUE, heap |-> heap, value |-> value]
NoArgument == [given |-> FALSE, heap |-> <<>>, value |-> Undefined]

\* string bytes: 0x01, '\n', 0x1F, '"', '\\', 'a', 0x7F, 0xC8
StrBytes == {1, 10, 31, 34, 92, 97, 127, 200}

\* top-level primitives
Primitives ==
    { Null, Undefined, Symbol, Bool(TRUE), Bool(FALSE), NaN, Infinity,
      Num(0), Num(-7), Num(120), Tenths(25), Tenths(-5) }
    \cup { Str(b) : b \in StringsUpTo(StrBytes, MaxStrLen) }

\* flat containers: slots that are undefined, null or "a"
SlotValues == { Undefined, Null, Str(A) }
FlatObjects ==
    { ArrayOf(e, h) : e \in StringsUpTo(SlotValues, MaxSlots), h \in BOOLEAN }
    \cup { ObjectOf(e) : e \in StringsUpTo(SlotValues, MaxSlots) }
    \cup { Function }

\* chains: n containers nested in each other around a leaf.  The containers
\* are all arrays, all objects or alternate; a wide one holds "a" before and
\* undefined after its child.
LeafValues == { Null, Undefined, Str(A), Num(-7), Symbol }
LeafObjects ==
    { ArrayOf(<<>>, FALSE), ArrayOf(<<Str(A)>>, TRUE), ObjectOf(<<>>),
      ObjectOf(<<Str(A)>>), Hooked(Str(A)), Hooked(Undefined), Function }
ChainKinds == { "array", "object", "mixed" }
KindAt(kind, i) ==
    IF kind = "mixed" THEN (IF i % 2 = 1 THEN "array" ELSE "object") ELSE kind
Wrapper(type, wide, child) ==
    LET slots == IF wide THEN <<Str(A), child, Undefined>> ELSE <<child>>
    IN IF type = "array" THEN ArrayOf(slots, FALSE) ELSE ObjectOf(slots)
ChainOfValue(n, kind, wide, leaf) ==
    Given([i \in 1..n |-> Wrapper(KindAt(kind, i), wide,
                                    IF i < n THEN Ref(i + 1) ELSE leaf)],
          IF n = 0 THEN leaf ELSE Ref(1))
ChainOfObject(n, kind, wide, leaf) ==
    Given([i \in 1..(n + 1) |->
              IF i <= n THEN Wrapper(KindAt(kind, i), wide, Ref(i + 1)) ELSE leaf],
          Ref(1))
Chains ==
    { ChainOfValue(n, k, w, l) :
        n \in 1..MaxNest, k \in ChainKinds, w \in BOOLEAN, l \in LeafValues }
    \cup { ChainOfObject(n, k, w, l) :
        n \in 0..MaxNest, k \in ChainKinds, w \in BOOLEAN, l \in LeafObjects }

\* rings: NObj containers, each refers to itself or to the next one
\* (the last to the first), as an element, a property or a toJSON result
LinkShapes(self, next) ==
    { ArrayOf(<<Ref(next)>>, FALSE),
      ArrayOf(<<Str(A), Ref(self)>>, FALSE),
      ArrayOf(<<Ref(next)>>, TRUE),
      ObjectOf(<<Ref(next)>>),
      ObjectOf(<<Undefined, Ref(self), Str(A)>>),
      Hooked(Ref(next)),
      Hooked(Ref(self)),
      Hooked(Str(A)) }
RingHeaps ==
    { h \in [1..NObj -> UNION { LinkShapes(i, (i % NObj) + 1) : i \in 1..NObj }] :
        \A i \in 1..NObj : h[i] \in LinkShapes(i, (i % NObj) + 1) }

JsonInputs ==
    { NoArgument }
    \cup { Given(<<>>, v) : v \in Primitives }
    \cup { Given(<<o>>, Ref(1)) : o \in FlatObjects }
    \cup Chains
    \cup { Given(h, Ref(1)) : h \in RingHeaps }

\* self-referential arrays: up to MaxArrLen elements, each the array itself
\* or a primitive; the array is its own element once or twice
SelfElems == { Ref(1), Null, Undefined, Bool(TRUE), Num(-7), Str(A) }
SelfCount(e) == Cardinality({ i \in 1..Len(e) : e[i] = Ref(1) })
SelfArrays ==
    { Given(<<ArrayOf(e, FALSE)>>, Ref(1)) :
        e \in { x \in StringsUpTo(SelfElems, MaxArrLen) :
                  SelfCount(x) \in {1, 2} } }

----------------------------------------------------------------------------
(* The stringify entry point *)

\* Native frames the stack holds.  A value graph of the families above
\* without a cycle of toJSON results needs fewer: at most MAX_DEPTH + 2
\* nesting levels, each a container frame, a value frame and one value
\* frame per toJSON substitution.
StackLimit == (MAX_DEPTH + 2) * (NObj + 2)

UndefinedText == <<117, 110, 100, 101, 102, 105, 110, 101, 100>>

\* FastStringify and JsonStringifier::Stringify, json_stringify.cc:223-239
FastStringifyCall(a) ==
    /\ op = "idle"
    /\ op' = "stringify"
    /\ arg' = a
    /\ UNCHANGED <<HEX_TABLE, hexTableInitialized, thread>>
    /\ IF ~a.given
       THEN /\ ret' = [out |-> <<UndefinedText>>, ok |-> TRUE]
            /\ UNCHANGED <<ESCAPE_TABLE, escapeTableInitialized>>
       ELSE LET tbl == initEscapeTable(ESCAPE_TABLE, escapeTableInitialized)
            IN /\ ESCAPE_TABLE' = tbl
               /\ escapeTableInitialized' = TRUE
               /\ ret' = stringifyValueFast(a.heap, a.value, 0, StackLimit, tbl)

FastStringify == \E a \in JsonInputs : FastStringifyCall(a)

NextJson == FastStringify \/ Return
SpecJson == Init /\ [][NextJson]_vars

\* stringify called on self-referential arrays only
StringifySelfArray == \E a \in SelfArrays : FastStringifyCall(a)

NextSelfArray == StringifySelfArray \/ Return
SpecSelfArray == Init /\ [][NextSelfArray]_vars

----------------------------------------------------------------------------
(* JSON grammar (RFC 8259) the serializer claims are stated with *)

IsDigit(c) == c \in 48..57

\* UTF-8 of a code point below 0x10000
Utf8(cp) ==
    IF cp < 128 THEN <<cp>>
    ELSE IF cp < 2048 THEN <<192 + (cp \div 64), 128 + (cp % 64)>>
    ELSE <<224 + (cp \div 4096), 128 + ((cp \div 64) % 64), 128 + (cp % 64)>>

\* the byte a two-character escape \c stands for, -1 when there is none
SimpleEscape(c) ==
    CASE c = 34 -> 34 [] c = 92 -> 92 [] c = 47 -> 47 [] c = 98 -> 8
      [] c = 102 -> 12 [] c = 110 -> 10 [] c = 114 -> 13 [] c = 116 -> 9
      [] OTHER -> -1

\* Parses the characters lit[i..last] of a string literal's body; acc is
\* what was read so far.  Yields [ok, bytes].
RECURSIVE ParseChars(_, _, _, _)
ParseChars(lit, i, last, acc) ==
    IF i > last THEN [ok |-> TRUE, bytes |-> acc]
    ELSE IF lit[i] = 92
         THEN IF i + 1 <= last /\ SimpleEscape(lit[i + 1]) # -1
              THEN ParseChars(lit, i + 2, last, Append(acc, SimpleEscape(lit[i + 1])))
              ELSE IF i + 5 <= last /\ lit[i + 1] = 117
                      /\ \A k \in 2..5 : IsHexDigit(lit[i + k])
                   THEN ParseChars(lit, i + 6, last,
                            acc \o Utf8(HexValue(lit[i + 2]) * 4096
                                        + HexValue(lit[i + 3]) * 256
                                        + HexValue(lit[i + 4]) * 16
                                        + HexValue(lit[i + 5])))
                   ELSE [ok |-> FALSE, bytes |-> acc]
         ELSE IF lit[i] < 32 \/ lit[i] = 34
              THEN [ok |-> FALSE, bytes |-> acc]
              ELSE ParseChars(lit, i + 1, last, Append(acc, lit[i]))

\* a JSON parser's reading of a string literal
ParseString(lit) ==
    IF Len(lit) >= 2 /\ lit[1] = 34 /\ lit[Len(lit)] = 34
    THEN ParseChars(lit, 2, Len(lit) - 1, <<>>)
    ELSE [ok |-> FALSE, bytes |-> <<>>]

IsStringLiteral(tok) == ParseString(tok).ok

\* first position at or after i that holds no digit
DigitsEnd(tok, i) == Min({ j \in i..Len(tok) : ~IsDigit(tok[j]) } \cup {Len(tok) + 1})

\* number = [ minus ] int [ frac ] [ exp ]
IsNumberLiteral(tok) ==
    LET i0 == IF Len(tok) >= 1 /\ tok[1] = 45 THEN 2 ELSE 1
        i1 == DigitsEnd(tok, i0)
        intOk == i1 > i0 /\ (tok[i0] = 48 => i1 = i0 + 1)
        hasFrac == i1 <= Len(tok) /\ tok[i1] = 46
        i2 == IF hasFrac THEN DigitsEnd(tok, i1 + 1) ELSE i1
        fracOk == hasFrac => i2 > i1 + 1
        hasExp == i2 <= Len(tok) /\ tok[i2] \in {69, 101}
        i3 == IF hasExp /\ i2 + 1 <= Len(tok) /\ tok[i2 + 1] \in {43, 45}
              THEN i2 + 2 ELSE i2 + 1
        i4 == IF hasExp THEN DigitsEnd(tok, i3) ELSE i2
        expOk == hasExp => i4 > i3
    IN intOk /\ fracOk /\ expOk /\ i4 = Len(tok) + 1

\* the lexical class of a token
TokenClass(tok) ==
    CASE tok = LBracket -> "[" [] tok = RBracket -> "]"
      [] tok = LBrace -> "{" [] tok = RBrace -> "}"
      [] tok = Comma -> "," [] tok = Colon -> ":"
      [] tok \in {NullTok, TrueTok, FalseTok} -> "scalar"
      [] Len(tok) >= 1 /\ tok[1] = 34 /\ IsStringLiteral(tok) -> "string"
      [] Len(tok) >= 1 /\ (tok[1] = 45 \/ IsDigit(tok[1])) /\ IsNumberLiteral(tok) -> "scalar"
      [] OTHER -> "bad"

\* The parser is a pushdown automaton.  st is what it expects next:
\*   "value"            a value
\*   "valueOrEnd"       a value or ']'   (after '[')
\*   "keyOrEnd"         a key or '}'     (after '{')
\*   "key"              a key            (after ',' in an object)
\*   "colon"            ':'
\*   "more"             ',' or the closing bracket of the open container;
\*                      with no container open the document is complete
\* open is the stack of open containers, innermost last.
ParserStart == [st |-> "value", open |-> <<>>]
ParserBad == [st |-> "bad", open |-> <<>>]
Top(p) == IF p.open = <<>> THEN "" ELSE p.open[Len(p.open)]
Pop(p) == [st |-> "more", open |-> SubSeq(p.open, 1, Len(p.open) - 1)]
Push(p, c) == [st |-> IF c = "[" THEN "valueOrEnd" ELSE "keyOrEnd", open |-> Append(p.open, c)]

ParserStep(p, tok) ==
    LET c == TokenClass(tok) IN
    CASE p.st \in {"value", "valueOrEnd"} /\ c \in {"scalar", "string"} ->
             [p EXCEPT !.st = "more"]
      [] p.st \in {"value", "valueOrEnd"} /\ c \in {"[", "{"} -> Push(p, c)
      [] p.st = "valueOrEnd" /\ c = "]" -> Pop(p)
      [] p.st = "keyOrEnd" /\ c = "}" -> Pop(p)
      [] p.st \in {"keyOrEnd", "key"} /\ c = "string" -> [p EXCEPT !.st = "colon"]
      [] p.st = "colon" /\ c = ":" -> [p EXCEPT !.st = "value"]
      [] p.st = "more" /\ c = "," /\ Top(p) = "[" -> [p EXCEPT !.st = "value"]
      [] p.st = "more" /\ c = "," /\ Top(p) = "{" -> [p EXCEPT !.st = "key"]
      [] p.st = "more" /\ c = "]" /\ Top(p) = "[" -> Pop(p)
      [] p.st = "more" /\ c = "}" /\ Top(p) = "{" -> Pop(p)
      [] OTHER -> ParserBad

\* the parser run over toks[lo..hi] from p, splitting the range in halves
RECURSIVE ParserRun(_, _, _, _)
ParserRun(p, toks, lo, hi) ==
    IF lo > hi THEN p
    ELSE IF lo = hi THEN ParserStep(p, toks[lo])
    ELSE LET mid == (lo + hi) \div 2
             q == ParserRun(p, toks, lo, mid)
         IN IF q.st = "bad" THEN ParserBad ELSE ParserRun(q, toks, mid + 1, hi)

\* toks is exactly one JSON value
IsJSONDocument(toks) ==
    ParserRun(ParserStart, toks, 1, Len(toks)) = [st |-> "more", open |-> <<>>]

----------------------------------------------------------------------------
(* Serializer claims *)

\* emit(b) of the string emitter's contract
RefEmit(b) ==
    CASE b = 34 -> <<92, 34>>
      [] b = 92 -> <<92, 92>>
      [] b = 8 -> <<92, 98>>
      [] b = 12 -> <<92, 102>>
      [] b = 10 -> <<92, 110>>
      [] b = 13 -> <<92, 114>>
      [] b = 9 -> <<92, 116>>
      [] b < 32 /\ b \notin {8, 9, 10, 12, 13} ->
             <<92, 117, 48, 48, 48 + (b \div 16),
               IF b % 16 < 10 THEN 48 + (b % 16) ELSE 87 + (b % 16)>>
      [] OTHER -> <<b>>

RECURSIVE RefEmitAll(_)
RefEmitAll(s) == IF s = <<>> THEN <<>> ELSE RefEmit(Head(s)) \o RefEmitAll(Tail(s))

StringCall == op = "stringify" /\ arg.given /\ arg.value.kind = "string"

\* C10: stringify of a string s returns, and its output is the one token
\* '"' emit(s[1]) ... emit(s[n]) '"', which a JSON parser reads back as s
C10_StringEmitter ==
    StringCall =>
        /\ ret.ok
        /\ ret.out = << <<34>> \o RefEmitAll(arg.value.s) \o <<34>> >>
        /\ ParseString(ret.out[1]) = [ok |-> TRUE, bytes |-> arg.value.s]

\* the verbatim byte 0xC8, a \u escape, and the trailing verbatim byte 0x7F
C10_Witness ==
    /\ StringCall
    /\ arg.value.s = <<200, 1, 127>>
    /\ ret.out = << <<34, 200, 92, 117, 48, 48, 48, 49, 127, 34>> >>

\* C4: what stringify returns for a value is one JSON document
C4_ValidJSON ==
    (op = "stringify" /\ arg.given /\ ret.ok) => IsJSONDocument(ret.out)

\* {"k1":"a","2":{...},...} two objects deep around an object whose toJSON
\* gives undefined: the skipped pairs are the trailing undefined ones and the
\* hook's undefined is written as null
C4_Witness ==
    /\ op = "stringify"
    /\ arg = ChainOfObject(2, "object", TRUE, Hooked(Undefined))
    /\ ret.ok
    /\ Len(ret.out) = 17
    /\ ret.out[15] = NullTok
    /\ IsJSONDocument(ret.out)

\* The value tree the serializer's contract describes, written out as
\* tokens.  hookFirst says whether a toJSON member is looked at before the
\* depth bound (TRUE) or whether the bound comes first and a container
\* beyond it is null whatever its members (FALSE).
RefScalar(v) ==
    CASE v.kind = "boolean" -> IF v.n = 1 THEN TrueTok ELSE FalseTok
      [] v.kind = "number" -> NumberToken(v)
      [] v.kind = "string" -> <<34>> \o RefEmitAll(v.s) \o <<34>>
      [] OTHER -> NullTok

RECURSIVE RefTokens(_, _, _, _)
RECURSIVE RefElements(_, _, _, _, _)
RECURSIVE RefMembers(_, _, _, _, _, _)

\* elements i..Len(elems), each after the first preceded by a comma
RefElements(heap, elems, i, depth, hookFirst) ==
    IF i > Len(elems) THEN <<>>
    ELSE (IF i > 1 THEN <<Comma>> ELSE <<>>)
         \o RefTokens(heap, elems[i], depth, hookFirst)
         \o RefElements(heap, elems, i + 1, depth, hookFirst)

\* the members at the positions idx[j..Len(idx)] of obj
RefMembers(heap, obj, idx, j, depth, hookFirst) ==
    IF j > Len(idx) THEN <<>>
    ELSE (IF j > 1 THEN <<Comma>> ELSE <<>>)
         \o << <<34>> \o RefEmitAll(obj.keys[idx[j]]) \o <<34>>, Colon >>
         \o RefTokens(heap, obj.elems[idx[j]], depth, hookFirst)
         \o RefMembers(heap, obj, idx, j + 1, depth, hookFirst)

RefTokens(heap, v, depth, hookFirst) ==
    IF v.kind # "ref" THEN <<RefScalar(v)>>
    ELSE LET o == heap[v.n]
             hooked == o.type # "array" /\ o.hasToJSON
             defined == SortedSeq({ i \in 1..Len(o.elems) : o.elems[i].kind # "undefined" })
         IN CASE hooked /\ (hookFirst \/ depth <= MAX_DEPTH) ->
                     RefTokens(heap, o.toJSON, depth, hookFirst)
              [] ~(hooked /\ (hookFirst \/ depth <= MAX_DEPTH)) /\ depth > MAX_DEPTH ->
                     <<NullTok>>
              [] ~hooked /\ depth <= MAX_DEPTH /\ o.type = "array" ->
                     <<LBracket>> \o RefElements(heap, o.elems, 1, depth + 1, hookFirst)
                                  \o <<RBracket>>
              [] OTHER ->
                     <<LBrace>> \o RefMembers(heap, o, defined, 1, depth + 1, hookFirst)
                                \o <<RBrace>>

\* following toJSON results from the object id leads back to it
RECURSIVE HookPath(_, _, _, _)
HookPath(heap, from, to, steps) ==
    /\ steps > 0
    /\ heap[from].type # "array" /\ heap[from].hasToJSON
    /\ heap[from].toJSON.kind = "ref"
    /\ \/ heap[from].toJSON.n = to
       \/ HookPath(heap, heap[from].toJSON.n, to, steps - 1)
HookLoop(heap, id) == HookPath(heap, id, id, Len(heap))

\* the modelled stack is deep enough: a call runs out of it only on a value
\* with a cycle of toJSON results
ExhaustedOnlyOnHookLoop ==
    (op = "stringify" /\ ~ret.ok) => \E id \in DOMAIN arg.heap : HookLoop(arg.heap, id)

\* C1: every call to stringify returns, whatever cycles the value has
C1_Terminates == op = "stringify" => ret.ok

\* C2 as stated: the output is the value tree in which every array or
\* object below depth 10 is null, its toJSON member not looked at
C2_DepthBoundBeforeHooks ==
    (op = "stringify" /\ arg.given /\ ret.ok) =>
        ret.out = RefTokens(arg.heap, arg.value, 0, FALSE)

\* C2 amended: the output is the value tree in which every array, and every
\* object without a callable toJSON, below depth 10 is null and an object
\* with one is replaced by the hook's result at the same depth
C2_DepthBound ==
    (op = "stringify" /\ arg.given /\ ret.ok) =>
        ret.out = RefTokens(arg.heap, arg.value, 0, TRUE)

\* eleven arrays around an object with keys that is at depth 11: null
C2_Witness ==
    /\ op = "stringify"
    /\ arg = ChainOfObject(11, "array", FALSE, ObjectOf(<<Str(A)>>))
    /\ ret.ok
    /\ Len(ret.out) = 23
    /\ ret.out[12] = NullTok

SelfArrayCall ==
    /\ op = "stringify"
    /\ arg.given
    /\ arg.value = Ref(1)
    /\ arg.heap[1].type = "array"
    /\ SelfCount(arg.heap[1].elems) >= 1

\* One pass over an array of n elements writes at most 2n tokens of its
\* own: two brackets, n - 1 commas and at most n - 1 primitives.  Output
\* linear in the depth cap is at most one such pass for each depth 0..cap
\* and the null that ends the descent.
LinearInCap(n) == 2 * n * (MAX_DEPTH + 1) + 1

\* C3 as stated: the bound holds of every self-referential array
C3_LinearInCap ==
    SelfArrayCall => ret.ok /\ Len(ret.out) <= LinearInCap(Len(arg.heap[1].elems))

\* C3 amended: the bound holds of every array that is its own element
\* exactly once
C3_LinearInCapOneSelf ==
    (SelfArrayCall /\ SelfCount(arg.heap[1].elems) = 1) =>
        ret.ok /\ Len(ret.out) <= LinearInCap(Len(arg.heap[1].elems))

\* a = ["a", a]
C3_Witness ==
    /\ SelfArrayCall
    /\ arg.heap[1].elems = <<Str(A), Ref(1)>>
    /\ ret.ok
    /\ Len(ret.out) = 45

----------------------------------------------------------------------------
(* Concurrent first calls: url_parser.cc:10-20, 35-36 and
   json_stringify.cc:12-25, 100-101.  Nothing orders the threads' accesses
   to the tables and the flags; every access is a step of its own. *)

At(t, label) == thread[t].at = label
Goto(t, label) == thread' = [thread EXCEPT ![t].at = label]

\* a thread calls decodeURI / parseQuery (hex) or stringify (escape)
ThreadCall(t) ==
    /\ At(t, "start")
    /\ \E label \in {"hexTest", "escTest"} : Goto(t, label)
    /\ UNCHANGED <<HEX_TABLE, hexTableInitialized, ESCAPE_TABLE,
                   escapeTableInitialized, op, arg, ret>>

\* initHexTable line 11: if (hexTableInitialized) return;
HexTest(t) ==
    /\ At(t, "hexTest")
    /\ thread' = [thread EXCEPT ![t].at = IF hexTableInitialized THEN "hexRead" ELSE "hexWrite",
                                ![t].k = 1]
    /\ UNCHANGED <<HEX_TABLE, hexTableInitialized, ESCAPE_TABLE,
                   escapeTableInitialized, op, arg, ret>>

\* initHexTable lines 13-17: the next write
HexWrite(t) ==
    /\ At(t, "hexWrite")
    /\ LET w == HexWrites[thread[t].k]
       IN HEX_TABLE' = [HEX_TABLE EXCEPT ![w[1]] = w[2]]
    /\ thread' = [thread EXCEPT ![t].k = @ + 1,
                                ![t].at = IF thread[t].k = Len(HexWrites)
                                          THEN "hexFlag" ELSE "hexWrite"]
    /\ UNCHANGED <<hexTableInitialized, ESCAPE_TABLE, escapeTableInitialized,
                   op, arg, ret>>

\* initHexTable line 19: hexTableInitialized = true; and the return
HexFlag(t) ==
    /\ At(t, "hexFlag")
    /\ hexTableInitialized' = TRUE
    /\ Goto(t, "hexRead")
    /\ UNCHANGED <<HEX_TABLE, ESCAPE_TABLE, escapeTableInitialized, op, arg, ret>>

\* DecodeURIComponent lines 35-36: HEX_TABLE[(unsigned char)data[i + 1]]
HexRead(t) ==
    /\ At(t, "hexRead")
    /\ \E b \in HexIndex :
          thread' = [thread EXCEPT ![t].at = "done",
                                   ![t].seen = <<"hex", b, HEX_TABLE[b]>>]
    /\ UNCHANGED <<HEX_TABLE, hexTableInitialized, ESCAPE_TABLE,
                   escapeTableInitialized, op, arg, ret>>

\* initEscapeTable line 13: if (escapeTableInitialized) return;
EscTest(t) ==
    /\ At(t, "escTest")
    /\ thread' = [thread EXCEPT ![t].at = IF escapeTableInitialized THEN "escRead" ELSE "escWrite",
                                ![t].k = 1]
    /\ UNCHANGED <<HEX_TABLE, hexTableInitialized, ESCAPE_TABLE,
                   escapeTableInitialized, op, arg, ret>>

\* initEscapeTable lines 16-22: the next write
EscWrite(t) ==
    /\ At(t, "escWrite")
    /\ LET w == EscapeWrites[thread[t].k]
       IN ESCAPE_TABLE' = [ESCAPE_TABLE EXCEPT ![w[1]] = w[2]]
    /\ thread' = [thread EXCEPT ![t].k = @ + 1,
                                ![t].at = IF thread[t].k = Len(EscapeWrites)
                                          THEN "escFlag" ELSE "escWrite"]
    /\ UNCHANGED <<HEX_TABLE, hexTableInitialized, escapeTableInitialized,
                   op, arg, ret>>

\* initEscapeTable line 24: escapeTableInitialized = true; and the return
EscFlag(t) ==
    /\ At(t, "escFlag")
    /\ escapeTableInitialized' = TRUE
    /\ Goto(t, "escRead")
    /\ UNCHANGED <<HEX_TABLE, hexTableInitialized, ESCAPE_TABLE, op, arg, ret>>

\* escapeStringFast lines 100-101: ESCAPE_TABLE[c]
EscRead(t) ==
    /\ At(t, "escRead")
    /\ \E b \in EscapeIndex :
          thread' = [thread EXCEPT ![t].at = "done",
                                   ![t].seen = <<"escape", b, ESCAPE_TABLE[b]>>]
    /\ UNCHANGED <<HEX_TABLE, hexTableInitialized, ESCAPE_TABLE,
                   escapeTableInitialized, op, arg, ret>>

NextThreads ==
    \E t \in Threads :
        \/ ThreadCall(t)
        \/ HexTest(t) \/ HexWrite(t) \/ HexFlag(t) \/ HexRead(t)
        \/ EscTest(t) \/ EscWrite(t) \/ EscFlag(t) \/ EscRead(t)
SpecThreads == Init /\ [][NextThreads]_vars

\* the table values the contract names
FinalHex(b) == IF IsHexDigit(b) THEN HexValue(b) ELSE -1
FinalEscape(b) == IF b \in {8, 9, 10, 12, 13, 34, 92} THEN RefEmit(b) ELSE <<>>
FinalValue(table, b) == IF table = "hex" THEN FinalHex(b) ELSE FinalEscape(b)

\* C8: a lookup made by a call after its own init routine returned gives
\* the final table value, whatever the other threads are doing
C8_LookupSeesFinalValue ==
    \A t \in Threads :
        At(t, "done") => thread[t].seen[3] = FinalValue(thread[t].seen[1], thread[t].seen[2])

\* the table an uninterrupted init leaves is the final one
SequentialInitIsFinal ==
    /\ \A b \in HexIndex : initHexTable(HexTableStatic, FALSE)[b] = FinalHex(b)
    /\ \A b \in EscapeIndex : initEscapeTable(EscapeTableStatic, FALSE)[b] = FinalEscape(b)

\* lookups in the escape table alone see final values
EscapeLookupSeesFinalValue ==
    \A t \in Threads :
        (At(t, "done") /\ thread[t].seen[1] = "escape") =>
            thread[t].seen[3] = FinalEscape(thread[t].seen[2])

====
